---- MODULE Spec2Model ----
\* The Cork: the three HTTP cloud functions of src/config.js
\* (analyzeWineLabel, searchWineImage, health) and the verifyAuth middleware,
\* as a state machine.  One invocation runs at a time (invocations share no
\* mutable state); an action is the code a handler runs between two awaits.
EXTENDS Integers, Sequences, FiniteSets, TLC

VARIABLES
    config,      \* functions.config(): [openaiKey, googleApiKey, googleCx]
    fn,          \* the exported function that is running
    req,         \* the request: [method, authorization, body]
    pc,          \* "idle", "done", or the await the handler is suspended at
    user,        \* verifyAuth's result as seen by the handler
    resHeaders,  \* headers set on res
    response,    \* the handler's local `response` (upstream reply)
    error,       \* the exception bound in the catch clause that ran
    trace        \* the invocation's effects in order: log, call, send

vars == <<config, fn, req, pc, user, resHeaders, response, error, trace>>

\* ---------------------------------------------------------------------
\* Bounds
\* ---------------------------------------------------------------------
\* longest text around an embedded JSON object in a model reply
MaxPad == 2
\* longest model reply drawn from all strings over the JSON alphabet
MaxShort == 3

\* ---------------------------------------------------------------------
\* JavaScript values.  Strings whose characters the code inspects are
\* sequences of one-character strings (Text); the others are Str.
\* ---------------------------------------------------------------------
Undefined == [t |-> "undefined"]
Null == [t |-> "null"]
Str(s) == [t |-> "string", v |-> s]
Text(s) == [t |-> "text", v |-> s]
Num(n) == [t |-> "number", v |-> n]
Bool(b) == [t |-> "boolean", v |-> b]
Arr(s) == [t |-> "array", v |-> s]
Obj(f) == [t |-> "object", v |-> f]

\* ToBoolean, as used by `!x`, `x && y`, `x ? a : b`
Truthy(x) ==
    CASE x.t = "undefined" -> FALSE
      [] x.t = "null" -> FALSE
      [] x.t = "string" -> x.v # ""
      [] x.t = "text" -> x.v # <<>>
      [] x.t = "number" -> x.v # 0
      [] x.t = "boolean" -> x.v
      [] OTHER -> TRUE

\* property read o.k of an object (undefined when the property is absent)
Get(o, k) == IF o.t = "object" /\ k \in DOMAIN o.v THEN o.v[k] ELSE Undefined

\* all sequences over S of length at most n
RECURSIVE SeqsUpTo(_, _)
SeqsUpTo(S, n) ==
    IF n = 0 THEN {<<>>}
    ELSE LET shorter == SeqsUpTo(S, n - 1)
         IN  shorter \cup {Append(s, c) : s \in shorter, c \in S}

\* ---------------------------------------------------------------------
\* String.prototype helpers
\* ---------------------------------------------------------------------
\* s.includes(p): the prefix test relaxed to a substring test
StartsWithAnywhere(s, p) ==
    \E i \in 1..Len(s) : i + Len(p) - 1 <= Len(s) /\ SubSeq(s, i, i + Len(p) - 1) = p

\* s.startsWith(p)
StartsWith(s, p) == Len(s) >= Len(p) /\ SubSeq(s, 1, Len(p)) = p

\* positions at or after `from` where sep occurs in s
Occurrences(s, sep, from) ==
    {i \in from..(Len(s) - Len(sep) + 1) : SubSeq(s, i, i + Len(sep) - 1) = sep}

Min(S) == CHOOSE m \in S : \A n \in S : m <= n
Max(S) == CHOOSE m \in S : \A n \in S : m >= n

\* s.split(sep)[1]: the text between the first and the second occurrence of
\* sep (or the end of s); undefined when sep does not occur
SplitSecond(s, sep) ==
    LET first == Occurrences(s, sep, 1) IN
    IF first = {} THEN Undefined
    ELSE LET b == Min(first) + Len(sep)
             next == Occurrences(s, sep, b)
             e == IF next = {} THEN Len(s) ELSE Min(next) - 1
         IN  Text(SubSeq(s, b, e))

\* ---------------------------------------------------------------------
\* JSON.parse on texts over the alphabet { } " : , 1 x.  Over this alphabet
\* a value is an object, a string without escapes, or a number written with
\* the digit 1; `x` is legal only inside a string.
\* ---------------------------------------------------------------------
JsonChars == {"{", "}", "\"", ":", ",", "1", "x"}

Fail == [ok |-> FALSE, pos |-> 0, val |-> Undefined]
Ok(p, v) == [ok |-> TRUE, pos |-> p, val |-> v]

At(s, i) == IF i >= 1 /\ i <= Len(s) THEN s[i] ELSE "EOF"

ParseString(s, i) ==
    IF At(s, i) # "\"" THEN Fail
    ELSE LET close == {j \in (i + 1)..Len(s) : s[j] = "\""} IN
         IF close = {} THEN Fail
         ELSE Ok(Min(close) + 1, Text(SubSeq(s, i + 1, Min(close) - 1)))

RECURSIVE DigitsEnd(_, _)
DigitsEnd(s, i) == IF At(s, i) = "1" THEN DigitsEnd(s, i + 1) ELSE i

RECURSIVE Decimal(_)
Decimal(d) == IF d = <<>> THEN 0 ELSE 10 * Decimal(SubSeq(d, 1, Len(d) - 1)) + 1

ParseNumber(s, i) ==
    IF At(s, i) # "1" THEN Fail
    ELSE Ok(DigitsEnd(s, i), Num(Decimal(SubSeq(s, i, DigitsEnd(s, i) - 1))))

\* obj[k] = v: a repeated key keeps the last value
SetKey(f, k, v) == [x \in (DOMAIN f) \cup {k} |-> IF x = k THEN v ELSE f[x]]

RECURSIVE ParseValue(_, _), ParseMembers(_, _, _)
ParseValue(s, i) ==
    CASE At(s, i) = "{" ->
            IF At(s, i + 1) = "}" THEN Ok(i + 2, Obj(<<>>))
            ELSE ParseMembers(s, i + 1, <<>>)
      [] At(s, i) = "\"" -> ParseString(s, i)
      [] At(s, i) = "1" -> ParseNumber(s, i)
      [] OTHER -> Fail

ParseMembers(s, i, acc) ==
    LET k == ParseString(s, i) IN
    IF ~k.ok \/ At(s, k.pos) # ":" THEN Fail
    ELSE LET v == ParseValue(s, k.pos + 1) IN
         IF ~v.ok THEN Fail
         ELSE LET acc2 == SetKey(acc, k.val.v, v.val) IN
              CASE At(s, v.pos) = "," -> ParseMembers(s, v.pos + 1, acc2)
                [] At(s, v.pos) = "}" -> Ok(v.pos + 1, Obj(acc2))
                [] OTHER -> Fail

\* JSON.parse(s): ok is FALSE where JSON.parse throws SyntaxError
JSONparse(s) ==
    LET r == ParseValue(s, 1) IN
    IF r.ok /\ r.pos = Len(s) + 1 THEN r ELSE Fail

\* ---------------------------------------------------------------------
\* Inputs
\* ---------------------------------------------------------------------
Bearer == <<"B", "e", "a", "r", "e", "r", " ">>
DataColon == <<"d", "a", "t", "a", ":">>
JpegPrefix == <<"d", "a", "t", "a", ":", "i", "m", "a", "g", "e", "/", "j", "p", "e",
                "g", ";", "b", "a", "s", "e", "6", "4", ",">>

Methods == {"OPTIONS", "POST", "GET"}

AuthHeaders ==
    { Undefined,
      Text(<<>>),
      Text(Bearer),
      Text(Bearer \o <<"t">>),
      Text(<<"b", "e", "a", "r", "e", "r", " ", "t">>),
      Text(<<"B", "a", "s", "i", "c", " ", "t">>),
      Text(<<" ">> \o Bearer \o <<"t">>) }

\* values a configuration key can have
KeyValues == {Undefined, Str(""), Str("k")}

Images == {Undefined, Text(<<>>), Text(<<"x">>), Text(DataColon \o <<"x">>)}
AnalyzeBodies == {Obj([imageBase64 |-> i]) : i \in Images}

Queries == {Undefined, Str(""), Str("merlot")}
Types == {Undefined, Str(""), Str("rosé"), Str("sparkling"), Str("dessert"),
          Str("red"), Str("Rosé")}
SearchBodies == {Obj([query |-> q, type |-> ty]) : q \in Queries, ty \in Types}

\* replies of the vision model: a JSON object with text around it, and every
\* short string over the JSON alphabet
PadChars == {"{", "}", "x"}
Pads == SeqsUpTo(PadChars, MaxPad)
Objects ==
    { <<"{", "}">>,
      <<"{", "\"", "x", "\"", ":", "1", "}">>,
      <<"{", "\"", "x", "\"", ":", "{", "}", ",", "\"", "}", "\"", ":", "1", "1", "}">> }
ModelReplies ==
    {Text(a \o o \o b) : a \in Pads, o \in Objects, b \in Pads}
        \cup {Text(s) : s \in SeqsUpTo(JsonChars \ {","}, MaxShort)}
        \cup {Null}
\* response.choices of the model call: one choice, or none
ModelChoices == {<<c>> : c \in ModelReplies} \cup {<<>>}
ModelErrors == {Str("Connection error."), Str("429 You exceeded your current quota")}

Item(n) == Obj([link |-> Str(n)])
ErrorBody(code) == Obj([error |-> Obj([code |-> Num(code), message |-> Str("rejected")])])
\* replies of the image-search provider: HTTP status, whether the body is
\* JSON, and the value response.json() gives
SearchReplies ==
    { [status |-> 200, json |-> TRUE, data |-> Obj([items |-> Arr(<<Item("http://img/1")>>)])],
      [status |-> 200, json |-> TRUE,
       data |-> Obj([items |-> Arr(<<Item("http://img/1"), Item("http://img/2")>>)])],
      [status |-> 200, json |-> TRUE, data |-> Obj([items |-> Arr(<<>>)])],
      [status |-> 200, json |-> TRUE, data |-> Obj([kind |-> Str("customsearch#search")])],
      [status |-> 200, json |-> TRUE, data |-> Obj([items |-> Arr(<<Null>>)])],
      [status |-> 200, json |-> TRUE, data |-> Null],
      [status |-> 403, json |-> TRUE, data |-> ErrorBody(403)],
      [status |-> 429, json |-> TRUE, data |-> ErrorBody(429)],
      [status |-> 200, json |-> FALSE, data |-> Undefined],
      [status |-> 502, json |-> FALSE, data |-> Undefined] }
FetchErrors == {Str("fetch failed")}
AuthErrors == {Str("auth/id-token-expired"), Str("auth/argument-error")}
Principal == Obj([uid |-> Str("u1")])

\* ---------------------------------------------------------------------
\* Effects
\* ---------------------------------------------------------------------
\* console.error(what, err)
Log(what) == [kind |-> "log", what |-> what]
\* an outbound call
Call(api, arg) == [kind |-> "call", api |-> api, arg |-> arg]
\* res.status(status).json(body) / .send(body), with the headers set so far
Send(hdrs, status, body) ==
    [kind |-> "send", status |-> status, body |-> body, headers |-> hdrs]

Sent == SelectSeq(trace, LAMBDA e : e.kind = "send")
Logs == SelectSeq(trace, LAMBDA e : e.kind = "log")
UpstreamCalls == SelectSeq(trace, LAMBDA e : e.kind = "call" /\ e.api \in {"openai", "search"})
IdentityCalls == SelectSeq(trace, LAMBDA e : e.kind = "call" /\ e.api = "identity")

\* the CORS headers with the Access-Control-Allow-Headers call left out
CorsHeadersNoAllowHeaders ==
    ("Access-Control-Allow-Origin" :> "*") @@ ("Access-Control-Allow-Methods" :> "POST, OPTIONS")

\* the three res.set calls of analyzeWineLabel and searchWineImage
CorsHeaders ==
    ("Access-Control-Allow-Origin" :> "*")
        @@ ("Access-Control-Allow-Methods" :> "POST, OPTIONS")
        @@ ("Access-Control-Allow-Headers" :> "Content-Type, Authorization")

\* the res.set call of health
HealthHeaders == ("Access-Control-Allow-Origin" :> "*")

\* where a handler stands after a run of synchronous code
Reached(p, t, u, e) == [pc |-> p, trace |-> t, user |-> u, error |-> e]

\* ---------------------------------------------------------------------
\* Configuration getters
\* ---------------------------------------------------------------------
getOpenAIKey == config.openaiKey
getGoogleApiKey == config.googleApiKey
getGoogleCx == config.googleCx

\* ---------------------------------------------------------------------
\* analyzeWineLabel, after authentication
\* ---------------------------------------------------------------------
\* the url of the image_url content part
ImageUrl(img) == IF StartsWith(img, DataColon) THEN img ELSE JpegPrefix \o img

\* from `const openaiKey` to the await of the model call
AnalyzeMain(hdrs, body, u, t) ==
    IF ~Truthy(getOpenAIKey)
    THEN Reached("done",
                 Append(t, Send(hdrs, 500, Obj([error |-> Str("OpenAI API not configured")]))),
                 u, Undefined)
    ELSE IF ~Truthy(body.v.imageBase64)
    THEN Reached("done",
                 Append(t, Send(hdrs, 400, Obj([error |-> Str("No image provided")]))),
                 u, Undefined)
    ELSE Reached("openai",
                 Append(t, Call("openai", [apiKey |-> getOpenAIKey,
                                           url |-> ImageUrl(body.v.imageBase64.v)])),
                 u, Undefined)

\* ---------------------------------------------------------------------
\* searchWineImage, after authentication
\* ---------------------------------------------------------------------
\* !googleApiKey && !googleCx: the two tests joined the wrong way
SearchUnconfiguredEither(key, cx) == ~Truthy(key) /\ ~Truthy(cx)

\* !googleApiKey || !googleCx
SearchUnconfigured(key, cx) == ~Truthy(key) \/ ~Truthy(cx)

\* the keyword choice without the branch for sparkling wine
TypeKeywordNoSparkling(wineType) ==
    IF wineType = Str("rosé") THEN "rosé wine"
    ELSE IF wineType = Str("dessert") THEN "dessert wine"
    ELSE IF Truthy(wineType) THEN wineType.v \o " wine"
    ELSE "wine"

\* the nested conditional that picks the keyword of a wine type
TypeKeyword(wineType) ==
    IF wineType = Str("rosé") THEN "rosé wine"
    ELSE IF wineType = Str("sparkling") THEN "sparkling wine champagne"
    ELSE IF wineType = Str("dessert") THEN "dessert wine"
    ELSE IF Truthy(wineType) THEN wineType.v \o " wine"
    ELSE "wine"

\* `${query} ${typeKeyword} bottle`, with wineType = type || ''
SearchQuery(query, type) ==
    LET wineType == IF Truthy(type) THEN type ELSE Str("")
    IN  query.v \o " " \o TypeKeyword(wineType) \o " bottle"

\* from `const googleApiKey` to the await of fetch; the url carries
\* encodeURIComponent(searchQuery), recorded here before encoding
SearchMain(hdrs, body, u, t) ==
    IF SearchUnconfigured(getGoogleApiKey, getGoogleCx)
    THEN Reached("done",
                 Append(t, Send(hdrs, 200,
                                Obj([success |-> Bool(TRUE), imageUrl |-> Null,
                                     message |-> Str("Google Image Search not configured")]))),
                 u, Undefined)
    ELSE IF ~Truthy(body.v.query)
    THEN Reached("done",
                 Append(t, Send(hdrs, 400, Obj([error |-> Str("No search query provided")]))),
                 u, Undefined)
    ELSE Reached("fetch",
                 Append(t, Call("search", [key |-> getGoogleApiKey, cx |-> getGoogleCx,
                                           searchQuery |-> SearchQuery(body.v.query,
                                                                       body.v.type)])),
                 u, Undefined)

\* ---------------------------------------------------------------------
\* verifyAuth and its callers
\* ---------------------------------------------------------------------
\* the handler without its `if (!user) return;`
HandlerNeverReturns(u) == FALSE

\* if (!user) return;
HandlerReturns(u) == ~Truthy(u)

\* the handler from the return of verifyAuth on; e is the exception
\* verifyAuth caught, if any
AfterVerifyAuth(f, hdrs, body, u, t, e) ==
    IF HandlerReturns(u) THEN Reached("done", t, u, e)
    ELSE IF f = "analyzeWineLabel" THEN AnalyzeMain(hdrs, body, u, t)
    ELSE SearchMain(hdrs, body, u, t)

\* !authHeader || !authHeader.startsWith('Bearer ')
NoToken(h) == ~Truthy(h) \/ ~StartsWith(h.v, Bearer)

\* verifyAuth up to the await of verifyIdToken
VerifyAuthStart(f, hdrs, h, body, t) ==
    IF NoToken(h)
    THEN AfterVerifyAuth(f, hdrs, body, Null,
             Append(t, Send(hdrs, 401, Obj([error |-> Str("Unauthorized - No token provided")]))),
             Undefined)
    ELSE Reached("verifyIdToken", Append(t, Call("identity", SplitSecond(h.v, Bearer))),
                 Undefined, Undefined)

\* the catch clause of verifyAuth without its console.error
AuthCatchSilent(hdrs) ==
    <<Send(hdrs, 401, Obj([error |-> Str("Unauthorized - Invalid token")]))>>

\* the catch clause of verifyAuth
AuthCatch(hdrs) ==
    <<Log("Auth error:"),
      Send(hdrs, 401, Obj([error |-> Str("Unauthorized - Invalid token")]))>>

\* the method checks shared by analyzeWineLabel and searchWineImage, then
\* verifyAuth
Protected(f, hdrs, m, h, body) ==
    IF m = "OPTIONS" THEN Reached("done", <<Send(hdrs, 204, Str(""))>>, Undefined, Undefined)
    ELSE IF m # "POST"
    THEN Reached("done", <<Send(hdrs, 405, Obj([error |-> Str("Method not allowed")]))>>,
                 Undefined, Undefined)
    ELSE VerifyAuthStart(f, hdrs, h, body, <<>>)

\* a request arrives and the handler runs to its first await or to its end
Invoke(f, hdrs, m, h, body) ==
    /\ pc = "idle"
    /\ fn' = f
    /\ req' = [method |-> m, authorization |-> h, body |-> body]
    /\ resHeaders' = hdrs
    /\ response' = Undefined
    /\ LET r == Protected(f, hdrs, m, h, body)
       IN  /\ pc' = r.pc
           /\ trace' = r.trace
           /\ user' = r.user
           /\ error' = r.error
    /\ UNCHANGED config

analyzeWineLabel ==
    \E m \in Methods, h \in AuthHeaders, body \in AnalyzeBodies :
        Invoke("analyzeWineLabel", CorsHeaders, m, h, body)

searchWineImage ==
    \E m \in Methods, h \in AuthHeaders, body \in SearchBodies :
        Invoke("searchWineImage", CorsHeaders, m, h, body)

\* ---------------------------------------------------------------------
\* health
\* ---------------------------------------------------------------------
\* a && b
And(a, b) == IF Truthy(a) THEN b ELSE a

\* !!getGoogleApiKey(): the search-engine identifier left out
HealthGoogleConfiguredKeyOnly(key, cx) == Bool(Truthy(key))

\* !!(getGoogleApiKey() && getGoogleCx())
HealthGoogleConfigured(key, cx) == Bool(Truthy(And(key, cx)))

health ==
    \E m \in Methods, h \in AuthHeaders :
        /\ pc = "idle"
        /\ fn' = "health"
        /\ req' = [method |-> m, authorization |-> h, body |-> Undefined]
        /\ resHeaders' = HealthHeaders
        /\ trace' = <<Send(HealthHeaders, 200,
                           Obj([status |-> Str("ok"),
                                openaiConfigured |-> Bool(Truthy(getOpenAIKey)),
                                googleConfigured |->
                                    HealthGoogleConfigured(getGoogleApiKey, getGoogleCx)]))>>
        /\ pc' = "done"
        /\ user' = Undefined
        /\ response' = Undefined
        /\ error' = Undefined
        /\ UNCHANGED config

\* ---------------------------------------------------------------------
\* verifyIdToken settles
\* ---------------------------------------------------------------------
\* the token handed to verifyIdToken
IdToken == trace[Len(trace)].arg

\* verifyIdToken resolves with the decoded token (never for an empty or
\* missing token, which the identity service rejects)
VerifyIdTokenResolve ==
    /\ pc = "verifyIdToken"
    /\ Truthy(IdToken)
    /\ LET r == AfterVerifyAuth(fn, resHeaders, req.body, Principal, trace, Undefined)
       IN  /\ pc' = r.pc
           /\ trace' = r.trace
           /\ user' = r.user
           /\ error' = r.error
    /\ UNCHANGED <<config, fn, req, resHeaders, response>>

\* verifyIdToken rejects: the catch clause logs, replies 401, returns null
VerifyIdTokenReject ==
    \E e \in AuthErrors :
        /\ pc = "verifyIdToken"
        /\ LET r == AfterVerifyAuth(fn, resHeaders, req.body, Null,
                                    trace \o AuthCatch(resHeaders), e)
           IN  /\ pc' = r.pc
               /\ trace' = r.trace
               /\ user' = r.user
               /\ error' = r.error
        /\ UNCHANGED <<config, fn, req, resHeaders, response>>

\* ---------------------------------------------------------------------
\* the model call settles
\* ---------------------------------------------------------------------
NoMatch == [found |-> FALSE, text |-> <<>>]

\* content.match(/\{[\s\S]*?\}/): the same match with a lazy star
RegexMatchLazy(s) ==
    LET opens == {i \in 1..Len(s) : s[i] = "{" /\ \E j \in (i + 1)..Len(s) : s[j] = "}"} IN
    IF opens = {} THEN NoMatch
    ELSE LET i == Min(opens)
             j == Min({k \in (i + 1)..Len(s) : s[k] = "}"})
         IN  [found |-> TRUE, text |-> SubSeq(s, i, j)]

\* content.match(/\{[\s\S]*\}/): the leftmost "{" that has a "}" after it,
\* up to the last "}" (the star is greedy and [\s\S] matches any character)
RegexMatch(s) ==
    LET opens == {i \in 1..Len(s) : s[i] = "{" /\ \E j \in (i + 1)..Len(s) : s[j] = "}"} IN
    IF opens = {} THEN NoMatch
    ELSE LET i == Min(opens)
             j == Max({k \in (i + 1)..Len(s) : s[k] = "}"})
         IN  [found |-> TRUE, text |-> SubSeq(s, i, j)]

\* the body of the inner try: ok is FALSE where it throws (content.match on
\* a null content, or JSON.parse)
ExtractJson(content) ==
    IF content.t # "text" THEN Fail
    ELSE LET jsonMatch == RegexMatch(content.v) IN
         IF jsonMatch.found THEN JSONparse(jsonMatch.text) ELSE JSONparse(content.v)

\* the inner catch reporting the matched span instead of the whole reply
ParseFailureBodyMatchOnly(content) ==
    Obj([error |-> Str("Failed to parse wine data"),
         raw |-> IF content.t = "text" /\ RegexMatch(content.v).found
                 THEN Text(RegexMatch(content.v).text) ELSE content])

\* the body sent by the inner catch
ParseFailureBody(content) ==
    Obj([error |-> Str("Failed to parse wine data"), raw |-> content])

\* from `const content` to the end of the handler
AnalyzeReply(hdrs, choices, u, t) ==
    IF choices = <<>>
    THEN LET e == Str("Cannot read properties of undefined (reading 'message')") IN
         Reached("done",
                 t \o <<Log("OpenAI error:"),
                        Send(hdrs, 500, Obj([error |-> Str("Failed to analyze image"),
                                             message |-> e]))>>,
                 u, e)
    ELSE LET content == choices[1]
             wineData == ExtractJson(content)
         IN  IF ~wineData.ok
             THEN Reached("done",
                          t \o <<Log("JSON parse error:"),
                                 Send(hdrs, 500, ParseFailureBody(content))>>,
                          u, Str("SyntaxError or TypeError"))
             ELSE Reached("done",
                          Append(t, Send(hdrs, 200, Obj([success |-> Bool(TRUE),
                                                         data |-> wineData.val]))),
                          u, Undefined)

OpenAIResolve ==
    \E choices \in ModelChoices :
        /\ pc = "openai"
        /\ response' = [choices |-> choices]
        /\ LET r == AnalyzeReply(resHeaders, choices, user, trace)
           IN  /\ pc' = r.pc
               /\ trace' = r.trace
               /\ user' = r.user
               /\ error' = r.error
        /\ UNCHANGED <<config, fn, req, resHeaders>>

\* the model call rejects: the outer catch
OpenAIReject ==
    \E e \in ModelErrors :
        /\ pc = "openai"
        /\ error' = e
        /\ trace' = trace \o <<Log("OpenAI error:"),
                               Send(resHeaders, 500,
                                    Obj([error |-> Str("Failed to analyze image"),
                                         message |-> e]))>>
        /\ pc' = "done"
        /\ UNCHANGED <<config, fn, req, resHeaders, response, user>>

\* ---------------------------------------------------------------------
\* fetch and response.json() settle
\* ---------------------------------------------------------------------
\* the outer catch of searchWineImage
SearchCatch(hdrs, e) ==
    <<Log("Google search error:"),
      Send(hdrs, 500, Obj([error |-> Str("Failed to search images"), message |-> e]))>>

\* from `if (data.items ...` to the end of the handler
SearchReply(hdrs, data, u, t) ==
    LET typeError == Str("Cannot read properties of null") IN
    IF data.t = "null" THEN Reached("done", t \o SearchCatch(hdrs, typeError), u, typeError)
    ELSE LET items == Get(data, "items") IN
         IF Truthy(items) /\ Len(items.v) > 0
         THEN IF items.v[1].t = "null"
              THEN Reached("done", t \o SearchCatch(hdrs, typeError), u, typeError)
              ELSE Reached("done",
                           Append(t, Send(hdrs, 200,
                                          Obj([success |-> Bool(TRUE),
                                               imageUrl |-> Get(items.v[1], "link")]))),
                           u, Undefined)
         ELSE Reached("done",
                      Append(t, Send(hdrs, 200,
                                     Obj([success |-> Bool(TRUE), imageUrl |-> Null,
                                          message |-> Str("No images found")]))),
                      u, Undefined)

\* fetch resolves with the provider's reply, whatever its HTTP status
FetchResolve ==
    \E r \in SearchReplies :
        /\ pc = "fetch"
        /\ response' = r
        /\ pc' = "json"
        /\ UNCHANGED <<config, fn, req, resHeaders, user, error, trace>>

\* fetch rejects (network error)
FetchReject ==
    \E e \in FetchErrors :
        /\ pc = "fetch"
        /\ error' = e
        /\ trace' = trace \o SearchCatch(resHeaders, e)
        /\ pc' = "done"
        /\ UNCHANGED <<config, fn, req, resHeaders, user, response>>

\* response.json() resolves with the parsed body
ResponseJsonResolve ==
    /\ pc = "json"
    /\ response.json
    /\ LET r == SearchReply(resHeaders, response.data, user, trace)
       IN  /\ pc' = r.pc
           /\ trace' = r.trace
           /\ user' = r.user
           /\ error' = r.error
    /\ UNCHANGED <<config, fn, req, resHeaders, response>>

\* response.json() rejects: the body is not JSON
ResponseJsonReject ==
    /\ pc = "json"
    /\ ~response.json
    /\ LET e == Str("Unexpected token < in JSON at position 0") IN
       /\ error' = e
       /\ trace' = trace \o SearchCatch(resHeaders, e)
    /\ pc' = "done"
    /\ UNCHANGED <<config, fn, req, resHeaders, user, response>>

\* ---------------------------------------------------------------------
\* Specification
\* ---------------------------------------------------------------------
Init ==
    /\ config \in [openaiKey : KeyValues, googleApiKey : KeyValues, googleCx : KeyValues]
    /\ fn = "none"
    /\ req = [method |-> "none", authorization |-> Undefined, body |-> Undefined]
    /\ pc = "idle"
    /\ user = Undefined
    /\ resHeaders = <<>>
    /\ response = Undefined
    /\ error = Undefined
    /\ trace = <<>>

\* the handler has returned: the invocation is over and the instance takes
\* the next request with nothing left of this one
Return ==
    /\ pc = "done"
    /\ pc' = "idle"
    /\ fn' = "none"
    /\ req' = [method |-> "none", authorization |-> Undefined, body |-> Undefined]
    /\ user' = Undefined
    /\ resHeaders' = <<>>
    /\ response' = Undefined
    /\ error' = Undefined
    /\ trace' = <<>>
    /\ UNCHANGED config

\* an awaited call settles
Settle ==
    \/ VerifyIdTokenResolve
    \/ VerifyIdTokenReject
    \/ OpenAIResolve
    \/ OpenAIReject
    \/ FetchResolve
    \/ FetchReject
    \/ ResponseJsonResolve
    \/ ResponseJsonReject

Next ==
    \/ analyzeWineLabel
    \/ searchWineImage
    \/ health
    \/ VerifyIdTokenResolve
    \/ VerifyIdTokenReject
    \/ OpenAIResolve
    \/ OpenAIReject
    \/ FetchResolve
    \/ FetchReject
    \/ ResponseJsonResolve
    \/ ResponseJsonReject
    \/ Return

Spec == Init /\ [][Next]_vars

\* every awaited external call eventually resolves or rejects
LiveSpec == Spec /\ WF_vars(Settle)

\* ---------------------------------------------------------------------
\* Properties
\* ---------------------------------------------------------------------
ProtectedFns == {"analyzeWineLabel", "searchWineImage"}

\* the Authorization header is absent or does not begin with "Bearer "
HeaderLacksBearer ==
    \/ req.authorization = Undefined
    \/ Len(req.authorization.v) < 7
    \/ \E i \in 1..7 : req.authorization.v[i] # Bearer[i]

\* the single response sent has this status and this error text
RepliedError(status, text) ==
    /\ Len(Sent) = 1
    /\ Sent[1].status = status
    /\ Get(Sent[1].body, "error") = Str(text)

\* C1 as stated: every request to a protected endpoint whose Authorization
\* header is absent or lacks the "Bearer " prefix is answered 401 and makes
\* no upstream call.
C1_AnyMethodUnauthorized ==
    (fn \in ProtectedFns /\ HeaderLacksBearer)
        => (pc = "done" /\ Len(Sent) = 1 /\ Sent[1].status = 401 /\ UpstreamCalls = <<>>)

\* C1 amended: a request to a protected endpoint whose Authorization header
\* is absent or lacks the "Bearer " prefix never makes an upstream call, and
\* when its method is POST it is answered 401 "Unauthorized - No token
\* provided" (OPTIONS is answered 204 and any other method 405).
C1_PostUnauthorized ==
    (fn \in ProtectedFns /\ HeaderLacksBearer)
        => /\ pc = "done"
           /\ UpstreamCalls = <<>>
           /\ req.method = "POST" => RepliedError(401, "Unauthorized - No token provided")
           /\ req.method = "OPTIONS" => (Len(Sent) = 1 /\ Sent[1].status = 204)
           /\ req.method \notin {"POST", "OPTIONS"} => RepliedError(405, "Method not allowed")

C1_Witness ==
    /\ fn = "analyzeWineLabel"
    /\ req.method = "POST"
    /\ req.authorization = Text(<<" ">> \o Bearer \o <<"t">>)
    /\ Truthy(getOpenAIKey)
    /\ Truthy(req.body.v.imageBase64)
    /\ pc = "done"
    /\ Sent[1].status = 401

AllowOrigin == "Access-Control-Allow-Origin"
AllowMethods == "Access-Control-Allow-Methods"
AllowHeaders == "Access-Control-Allow-Headers"

\* C2 as stated: an OPTIONS request to any of the three endpoints is
\* answered 204 with an empty body and the CORS headers set.
C2_OptionsAllEndpoints ==
    (pc = "done" /\ req.method = "OPTIONS")
        => /\ Len(Sent) = 1
           /\ Sent[1].status = 204
           /\ Sent[1].body = Str("")
           /\ AllowOrigin \in DOMAIN Sent[1].headers

\* C2 amended: an OPTIONS request to analyzeWineLabel or searchWineImage,
\* whatever its Authorization header, is answered 204 with an empty body and
\* the three CORS headers set; an OPTIONS request to health is answered 200
\* with the health body and Access-Control-Allow-Origin only.
C2_OptionsProtected ==
    (pc = "done" /\ req.method = "OPTIONS")
        => /\ Len(trace) = 1
           /\ Len(Sent) = 1
           /\ fn \in ProtectedFns =>
                /\ Sent[1].status = 204
                /\ Sent[1].body = Str("")
                /\ DOMAIN Sent[1].headers = {AllowOrigin, AllowMethods, AllowHeaders}
                /\ Sent[1].headers[AllowOrigin] = "*"
                /\ Sent[1].headers[AllowMethods] = "POST, OPTIONS"
                /\ Sent[1].headers[AllowHeaders] = "Content-Type, Authorization"
           /\ fn = "health" =>
                /\ Sent[1].status = 200
                /\ Get(Sent[1].body, "status") = Str("ok")
                /\ DOMAIN Sent[1].headers = {AllowOrigin}
                /\ Sent[1].headers[AllowOrigin] = "*"

C2_Witness ==
    /\ fn = "searchWineImage"
    /\ req.method = "OPTIONS"
    /\ req.authorization = Undefined
    /\ pc = "done"
    /\ Sent[1].status = 204

\* the image-search provider failed: fetch rejected, or the provider
\* answered with a non-2xx status or with a body that is not JSON
ProviderFailed ==
    \/ error \in FetchErrors
    \/ /\ response # Undefined
       /\ response.status \notin 200..299 \/ ~response.json

\* C3: in searchWineImage a failure of the image-search provider (network
\* error, rejection returned by the provider, unparseable reply) is answered
\* 500 "Failed to search images", never 200.
C3_ProviderFailureIs500 ==
    (fn = "searchWineImage" /\ pc = "done" /\ ProviderFailed)
        => RepliedError(500, "Failed to search images")

\* analyzeWineLabel has finished on a model reply whose content is a text
HasReply ==
    /\ fn = "analyzeWineLabel"
    /\ pc = "done"
    /\ response # Undefined
    /\ Len(response.choices) > 0
    /\ response.choices[1].t = "text"

\* the text of the model's reply
Content == response.choices[1].v

\* s is the text of one valid JSON object
IsObjectText(s) == Len(s) >= 2 /\ s[1] = "{" /\ JSONparse(s).ok

\* the places <<i, j>> where a valid JSON object is embedded in s
Embeddings(s) ==
    {p \in (1..Len(s)) \X (1..Len(s)) :
        /\ p[1] < p[2]
        /\ s[p[1]] = "{"
        /\ s[p[2]] = "}"
        /\ IsObjectText(SubSeq(s, p[1], p[2]))}

\* the embedded objects that do not lie inside another embedded object
Outermost(s) ==
    {p \in Embeddings(s) :
        \A q \in Embeddings(s) : (q[1] <= p[1] /\ p[2] <= q[2]) => q = p}

\* the single response is 200 {success: true, data: d}
RepliedData(d) ==
    /\ Len(Sent) = 1
    /\ Sent[1].status = 200
    /\ Sent[1].body = Obj([success |-> Bool(TRUE), data |-> d])

\* C4 as stated: a reply that consists of one valid JSON object with
\* arbitrary text around it is answered 200 with exactly that object.
C4_AnySurroundingText ==
    HasReply =>
        \A p \in Outermost(Content) :
            Cardinality(Outermost(Content)) = 1
                => RepliedData(JSONparse(SubSeq(Content, p[1], p[2])).val)

\* C4 amended: a reply that consists of one valid JSON object with text
\* around it, where the text before the object contains no "{" and the text
\* after it contains no "}", is answered 200 {success: true, data: D} with D
\* exactly that object.
C4_BraceFreeSurroundingText ==
    HasReply =>
        \A i, j \in 1..Len(Content) :
            ( /\ i < j
              /\ \A k \in 1..(i - 1) : Content[k] # "{"
              /\ \A k \in (j + 1)..Len(Content) : Content[k] # "}"
              /\ IsObjectText(SubSeq(Content, i, j)) )
                => RepliedData(JSONparse(SubSeq(Content, i, j)).val)

C4_Witness ==
    /\ HasReply
    /\ Len(Content) = 17
    /\ Content[1] = "x"
    /\ Content[17] = "x"
    /\ RepliedData(Obj([k \in {<<"x">>, <<"}">>} |->
                           IF k = <<"x">> THEN Obj(<<>>) ELSE Num(11)]))

\* the reply cannot be parsed: the span from its first "{" to its last "}"
\* is not valid JSON, or it has no such span and is not valid JSON as a whole
Unparseable(s) ==
    LET open == {i \in 1..Len(s) : s[i] = "{"}
        close == {j \in 1..Len(s) : s[j] = "}"}
    IN  IF open # {} /\ close # {} /\ Min(open) < Max(close)
        THEN ~JSONparse(SubSeq(s, Min(open), Max(close))).ok
        ELSE ~JSONparse(s).ok

\* C5: when the model's reply text cannot be parsed, the endpoint answers
\* 500 "Failed to parse wine data" with raw equal to the unmodified reply
\* text, and sends no success response.
C5_ParseFailure ==
    (HasReply /\ Unparseable(Content))
        => /\ Len(Sent) = 1
           /\ Sent[1].status = 500
           /\ Sent[1].body = Obj([error |-> Str("Failed to parse wine data"),
                                  raw |-> Text(Content)])

C5_Witness ==
    /\ HasReply
    /\ Content = <<"x", "{", "}", "}", "x">>
    /\ Sent[1].status = 500
    /\ Get(Sent[1].body, "raw") = Text(<<"x", "{", "}", "}", "x">>)

\* a configuration value is unset: missing or empty
Unset(k) == k = Undefined \/ k = Str("")

\* C6: an authenticated POST to searchWineImage while the search API key or
\* the search-engine identifier is unset is answered 200 with success true
\* and imageUrl null and makes no call to the search provider, whether or
\* not the body has a query.
C6_SearchUnconfigured ==
    ( /\ fn = "searchWineImage"
      /\ req.method = "POST"
      /\ user = Principal
      /\ Unset(config.googleApiKey) \/ Unset(config.googleCx) )
        => /\ pc = "done"
           /\ Len(Sent) = 1
           /\ Sent[1].status = 200
           /\ Get(Sent[1].body, "success") = Bool(TRUE)
           /\ "imageUrl" \in DOMAIN Sent[1].body.v
           /\ Get(Sent[1].body, "imageUrl") = Null
           /\ UpstreamCalls = <<>>

C6_Witness ==
    /\ fn = "searchWineImage"
    /\ user = Principal
    /\ config.googleApiKey = Str("k")
    /\ config.googleCx = Str("")
    /\ req.body.v.query = Undefined
    /\ pc = "done"
    /\ Get(Sent[1].body, "message") = Str("Google Image Search not configured")

\* the keyword C7 gives for a wine type
ExpectedKeyword(type) ==
    CASE type = Str("rosé") -> "rosé wine"
      [] type = Str("sparkling") -> "sparkling wine champagne"
      [] type = Str("dessert") -> "dessert wine"
      [] type = Undefined \/ type = Str("") -> "wine"
      [] OTHER -> type.v \o " wine"

\* C7: the search string handed to the provider is "<query> <typeKeyword>
\* bottle", with the keyword of the request's type.
C7_SearchString ==
    (fn = "searchWineImage" /\ UpstreamCalls # <<>>)
        => /\ Len(UpstreamCalls) = 1
           /\ UpstreamCalls[1].arg.searchQuery =
                req.body.v.query.v \o " " \o ExpectedKeyword(req.body.v.type) \o " bottle"

C7_Witness ==
    /\ fn = "searchWineImage"
    /\ pc = "fetch"
    /\ req.body.v.type = Str("sparkling")
    /\ UpstreamCalls[1].arg.searchQuery = "merlot sparkling wine champagne bottle"

\* a configuration value is a non-empty string
NonEmpty(k) == k.t = "string" /\ k.v # ""

\* C8: health answers 200 with status "ok" for every method and every
\* Authorization header, verifies no credential and makes no outbound call;
\* openaiConfigured is true exactly when the model key is non-empty and
\* googleConfigured exactly when both search values are non-empty.
C8_Health ==
    fn = "health"
        => /\ pc = "done"
           /\ user = Undefined
           /\ Len(trace) = 1
           /\ trace[1].kind = "send"
           /\ trace[1].status = 200
           /\ trace[1].body =
                Obj([status |-> Str("ok"),
                     openaiConfigured |-> Bool(NonEmpty(config.openaiKey)),
                     googleConfigured |-> Bool(NonEmpty(config.googleApiKey)
                                               /\ NonEmpty(config.googleCx))])

C8_Witness ==
    /\ fn = "health"
    /\ req.method = "POST"
    /\ req.authorization = Undefined
    /\ config.googleApiKey = Str("k")
    /\ config.googleCx = Undefined
    /\ pc = "done"
    /\ Get(Sent[1].body, "googleConfigured") = Bool(FALSE)

\* position k of the trace is a failure response
IsFailure(k) == trace[k].kind = "send" /\ trace[k].status \in {400, 401, 405, 500}

\* a log entry was written before position k of the trace
LoggedBefore(k) == \E j \in 1..(k - 1) : trace[j].kind = "log"

\* C9 as stated: every failure response of analyzeWineLabel and
\* searchWineImage is preceded by a log entry of the same request.
C9_EveryFailureLogged ==
    fn \in ProtectedFns => \A k \in 1..Len(trace) : IsFailure(k) => LoggedBefore(k)

\* C9 amended: a failure response that analyzeWineLabel, searchWineImage or
\* verifyAuth sends from a catch clause (401 "Unauthorized - Invalid token",
\* 500 "Failed to parse wine data", 500 "Failed to analyze image", 500
\* "Failed to search images") is preceded by a log entry of the same request;
\* the other failure responses (405, 401 "Unauthorized - No token provided",
\* 400, 500 "OpenAI API not configured") are sent with no log entry written.
C9_CaughtFailuresLogged ==
    fn \in ProtectedFns =>
        \A k \in 1..Len(trace) :
            IsFailure(k) =>
                /\ error # Undefined => LoggedBefore(k)
                /\ error = Undefined => Logs = <<>>
                /\ error # Undefined <=>
                     Get(trace[k].body, "error") \in
                        {Str("Unauthorized - Invalid token"), Str("Failed to parse wine data"),
                         Str("Failed to analyze image"), Str("Failed to search images")}

C9_Witness ==
    /\ fn = "searchWineImage"
    /\ pc = "done"
    /\ error \in AuthErrors
    /\ Len(trace) = 3
    /\ trace[2].kind = "log"
    /\ IsFailure(3)
    /\ trace[3].status = 401

\* C10: every invocation of analyzeWineLabel and searchWineImage sends
\* exactly one response: never a second one, one by the time the handler
\* has returned, and, as every awaited call settles, the handler returns.
C10_ExactlyOneResponse ==
    /\ [](fn \in ProtectedFns => Len(Sent) <= 1)
    /\ []((fn \in ProtectedFns /\ pc = "done") => Len(Sent) = 1)
    /\ (fn \in ProtectedFns /\ pc \notin {"idle", "done"})
          ~> (fn \in ProtectedFns /\ pc = "done" /\ Len(Sent) = 1)

C10_Witness ==
    /\ fn = "analyzeWineLabel"
    /\ pc = "done"
    /\ user = Null
    /\ Len(IdentityCalls) = 1
    /\ Truthy(getOpenAIKey)
    /\ Truthy(req.body.v.imageBase64)
    /\ Len(Sent) = 1

====
